---- MODULE Spec2Model ----
(***************************************************************************)
(* Model of the two chaincode contracts of sudoice/pbc:                    *)
(*   policeman-record/chaincode-go/smartcontract.go  (PolicePersonnel)     *)
(*   fir-record/chaincode-go/smartcontract.go        (FIR)                 *)
(* Every exported contract function is one atomic invocation against the   *)
(* world state, as the ledger platform serialises invocations.  The world  *)
(* state is one keyspace used by both contracts (spec.md section 3).       *)
(*                                                                         *)
(* Strings are text (valid Unicode); on text, encoding/json's string       *)
(* escaping and unescaping are inverse, so a JSON string value is modelled *)
(* by the text it denotes.  What Marshal and Unmarshal do to a struct      *)
(* (member names from the json tags, case-insensitive matching of member   *)
(* names, zero values for missing members, unknown members dropped) is     *)
(* modelled.                                                               *)
(***************************************************************************)
EXTENDS Naturals, Sequences, FiniteSets, TLC

VARIABLES state, last, written, iterators, writers

vars == <<state, last, written, iterators, writers>>

(***************************************************************************)
(* Bounds                                                                  *)
(***************************************************************************)
\* how many different field sets of each record kind the callers pass
NumFieldSets == 2

(***************************************************************************)
(* Errors: nil, and the error taxonomy of spec.md section 7 that the       *)
(* contract's fmt.Errorf messages fall into.                               *)
(***************************************************************************)
OK == "nil"
AuthorizationDenied == "AuthorizationDenied"
NotFound == "NotFound"
AlreadyExists == "AlreadyExists"
StorageError == "StorageError"

(***************************************************************************)
(* Keys.  AllKeysSorted is the universe of keys in the byte order the      *)
(* range scan returns them in.                                             *)
(***************************************************************************)
SeedKeys == {"FIR1", "FIR2", "POL12345"}

AllKeysSorted == <<"FIR1", "FIR2", "POL12345">>

Keys == SeedKeys

(***************************************************************************)
(* Caller identities: what ctx.GetClientIdentity().GetMSPID() returns, a   *)
(* string and an error.  The interface does not say what the string is     *)
(* when the error is not nil.                                              *)
(***************************************************************************)
Identities ==
  { [mspid |-> "Org1MSP", err |-> FALSE],
    [mspid |-> "Org2MSP", err |-> FALSE],
    [mspid |-> "", err |-> TRUE],
    [mspid |-> "Org1MSP", err |-> TRUE] }

Org1 == [mspid |-> "Org1MSP", err |-> FALSE]

(***************************************************************************)
(* The structs and their json tags (Go field name |-> JSON member name).   *)
(***************************************************************************)
FIRTags ==
  [ Accused |-> "Accused", CrimeType |-> "CrimeType",
    Description |-> "Description", FiledBy |-> "FiledBy", FIRID |-> "FIRID",
    Status |-> "Status", Timestamp |-> "Timestamp" ]

PersonnelTags ==
  [ OfficerID |-> "officerId", Name |-> "name", Rank |-> "rank",
    DOB |-> "dob", Posting |-> "posting", BadgeNumber |-> "badgeNumber",
    EmploymentStatus |-> "employmentStatus",
    DateOfJoining |-> "dateOfJoining", Award |-> "award",
    Suspension |-> "suspension", LastUpdatedBy |-> "lastUpdatedBy",
    LastUpdatedOn |-> "lastUpdatedOn" ]

\* encoding/json matches a member name to a field's name ignoring case:
\* the case-folded form of every member name the two contracts write.
Fold(name) ==
  CASE name = "Accused" -> "accused"
    [] name = "CrimeType" -> "crimetype"
    [] name = "Description" -> "description"
    [] name = "FiledBy" -> "filedby"
    [] name = "FIRID" -> "firid"
    [] name = "Status" -> "status"
    [] name = "Timestamp" -> "timestamp"
    [] name = "officerId" -> "officerid"
    [] name = "name" -> "name"
    [] name = "rank" -> "rank"
    [] name = "dob" -> "dob"
    [] name = "posting" -> "posting"
    [] name = "badgeNumber" -> "badgenumber"
    [] name = "employmentStatus" -> "employmentstatus"
    [] name = "dateOfJoining" -> "dateofjoining"
    [] name = "award" -> "award"
    [] name = "suspension" -> "suspension"
    [] name = "lastUpdatedBy" -> "lastupdatedby"
    [] name = "lastUpdatedOn" -> "lastupdatedon"

\* json.Marshal of a struct value v with the given tags: a JSON object, i.e.
\* a function from member names to the text of their string values.
Marshal(v, tags) ==
  [ m \in {tags[f] : f \in DOMAIN tags} |->
      v[CHOOSE f \in DOMAIN tags : tags[f] = m] ]

\* json.Unmarshal of a JSON object into a zero-valued struct with the given
\* tags: a field takes the value of the member whose name matches its tag
\* (ignoring case), stays "" when there is none; other members are dropped.
Unmarshal(blob, tags) ==
  [ f \in DOMAIN tags |->
      IF \E m \in DOMAIN blob : Fold(m) = Fold(tags[f])
      THEN blob[CHOOSE m \in DOMAIN blob : Fold(m) = Fold(tags[f])]
      ELSE "" ]

(***************************************************************************)
(* The stub.  A transaction context is                                     *)
(*   [identity, fail, state]: the caller, which store call of this         *)
(*   invocation fails (0: none), and the world state.                      *)
(* Each store call is logged as [op, key, ok].                             *)
(***************************************************************************)
Ctx(id, fail, st) == [identity |-> id, fail |-> fail, state |-> st]

Call(op, key, ok) == [op |-> op, key |-> key, ok |-> ok]

\* the n-th store call of the invocation returns an error
Fails(ctx, n) == ctx.fail = n

\* GetState: <<value>> when the key is present, <<>> (nil) when absent
GetState(st, key) == IF key \in DOMAIN st THEN <<st[key]>> ELSE <<>>

PutState(st, key, value) ==
  [ k \in DOMAIN st \cup {key} |-> IF k = key THEN value ELSE st[k] ]

DelState(st, key) == [ k \in DOMAIN st \ {key} |-> st[k] ]

\* GetStateByRange("", ""): every key of the world state, in key order
GetStateByRange(st) == SelectSeq(AllKeysSorted, LAMBDA k : k \in DOMAIN st)

\* What an invocation leaves: the world state, the error (OK: nil), the
\* returned value (<<>>: none) and the store calls it issued.
Outcome(st, err, ret, calls) ==
  [state |-> st, err |-> err, ret |-> ret, calls |-> calls]

(***************************************************************************)
(* fir-record/chaincode-go/smartcontract.go                                *)
(***************************************************************************)
\* A definition whose name extends a function's name (FileFIR_NoExistsCheck)
\* is that function with one step of its code left out or changed.

getMSPID_FIR(ctx) == ctx.identity

onlyPolice_FIR_IgnoreErr(ctx) ==
  LET id == getMSPID_FIR(ctx) IN
  IF id.mspid # "Org1MSP" THEN AuthorizationDenied ELSE OK

onlyPolice_FIR(ctx) ==
  LET id == getMSPID_FIR(ctx) IN
  IF id.err THEN AuthorizationDenied            \* "unable to get MSP ID"
  ELSE IF id.mspid # "Org1MSP" THEN AuthorizationDenied   \* "access denied"
  ELSE OK

FIRSeed ==
  << [ FIRID |-> "FIR1", FiledBy |-> "OfficerA", Accused |-> "John Doe",
       CrimeType |-> "Theft", Description |-> "Stolen bike",
       Status |-> "Open", Timestamp |-> "2024-01-01T10:00:00Z" ],
     [ FIRID |-> "FIR2", FiledBy |-> "OfficerB", Accused |-> "Jane Smith",
       CrimeType |-> "Assault", Description |-> "Physical altercation",
       Status |-> "Investigation", Timestamp |-> "2024-01-02T14:30:00Z" ] >>

\* writes a seed record only where its key is absent
RECURSIVE InitLedgerLoop_FIR_SkipPresent(_, _, _, _)
InitLedgerLoop_FIR_SkipPresent(ctx, i, st, calls) ==
  IF i > Len(FIRSeed) THEN Outcome(st, OK, <<>>, calls)
  ELSE
    LET fir == FIRSeed[i]
        firJSON == Marshal(fir, FIRTags)
    IN IF fir.FIRID \in DOMAIN st
       THEN InitLedgerLoop_FIR_SkipPresent(ctx, i + 1, st, calls)
       ELSE IF Fails(ctx, Len(calls) + 1)
       THEN Outcome(st, StorageError, <<>>,
                    Append(calls, Call("PutState", fir.FIRID, FALSE)))
       ELSE InitLedgerLoop_FIR_SkipPresent(ctx, i + 1,
              PutState(st, fir.FIRID, firJSON),
              Append(calls, Call("PutState", fir.FIRID, TRUE)))

\* the loop of InitLedger from its i-th record on
RECURSIVE InitLedgerLoop_FIR(_, _, _, _)
InitLedgerLoop_FIR(ctx, i, st, calls) ==
  IF i > Len(FIRSeed) THEN Outcome(st, OK, <<>>, calls)
  ELSE
    LET fir == FIRSeed[i]
        firJSON == Marshal(fir, FIRTags)
    IN IF Fails(ctx, Len(calls) + 1)
       THEN Outcome(st, StorageError, <<>>,
                    Append(calls, Call("PutState", fir.FIRID, FALSE)))
       ELSE InitLedgerLoop_FIR(ctx, i + 1, PutState(st, fir.FIRID, firJSON),
                               Append(calls, Call("PutState", fir.FIRID, TRUE)))

\* seeds behind the gate, as the personnel contract does
InitLedger_FIR_Gated(ctx) ==
  IF onlyPolice_FIR(ctx) # OK
  THEN Outcome(ctx.state, onlyPolice_FIR(ctx), <<>>, <<>>)
  ELSE InitLedgerLoop_FIR(ctx, 1, ctx.state, <<>>)

InitLedger_FIR(ctx) == InitLedgerLoop_FIR(ctx, 1, ctx.state, <<>>)

FIRExists(ctx, firID) ==
  IF Fails(ctx, 1)
  THEN Outcome(ctx.state, StorageError, <<FALSE>>,
               <<Call("GetState", firID, FALSE)>>)
  ELSE Outcome(ctx.state, OK, <<GetState(ctx.state, firID) # <<>> >>,
               <<Call("GetState", firID, TRUE)>>)

FileFIR_NoExistsCheck(ctx, firID, a) ==
  LET fir == [ FIRID |-> firID, FiledBy |-> a.filedBy, Accused |-> a.accused,
               CrimeType |-> a.crimeType, Description |-> a.description,
               Status |-> a.status, Timestamp |-> a.timestamp ]
  IN IF onlyPolice_FIR(ctx) # OK
     THEN Outcome(ctx.state, onlyPolice_FIR(ctx), <<>>, <<>>)
     ELSE IF Fails(ctx, 1)
          THEN Outcome(ctx.state, StorageError, <<>>,
                       <<Call("PutState", firID, FALSE)>>)
          ELSE Outcome(PutState(ctx.state, firID, Marshal(fir, FIRTags)), OK,
                       <<>>, <<Call("PutState", firID, TRUE)>>)

\* takes the key for absent unless the value stored at it is a case record
FileFIR_OwnKindOnly(ctx, firID, a) ==
  IF onlyPolice_FIR(ctx) # OK
  THEN Outcome(ctx.state, onlyPolice_FIR(ctx), <<>>, <<>>)
  ELSE IF Fails(ctx, 1)
  THEN Outcome(ctx.state, StorageError, <<>>,
               <<Call("GetState", firID, FALSE)>>)
  ELSE
    LET stored == GetState(ctx.state, firID)
        calls == <<Call("GetState", firID, TRUE)>>
    IN IF stored # <<>> /\ Unmarshal(stored[1], FIRTags).FIRID # ""
       THEN Outcome(ctx.state, AlreadyExists, <<>>, calls)
       ELSE
         LET fir == [ FIRID |-> firID, FiledBy |-> a.filedBy,
                      Accused |-> a.accused, CrimeType |-> a.crimeType,
                      Description |-> a.description, Status |-> a.status,
                      Timestamp |-> a.timestamp ]
             firJSON == Marshal(fir, FIRTags)
         IN IF Fails(ctx, 2)
            THEN Outcome(ctx.state, StorageError, <<>>,
                         Append(calls, Call("PutState", firID, FALSE)))
            ELSE Outcome(PutState(ctx.state, firID, firJSON), OK, <<>>,
                         Append(calls, Call("PutState", firID, TRUE)))

FileFIR(ctx, firID, a) ==
  IF onlyPolice_FIR(ctx) # OK
  THEN Outcome(ctx.state, onlyPolice_FIR(ctx), <<>>, <<>>)
  ELSE
    LET e == FIRExists(ctx, firID) IN
    IF e.err # OK THEN Outcome(ctx.state, e.err, <<>>, e.calls)
    ELSE IF e.ret[1] THEN Outcome(ctx.state, AlreadyExists, <<>>, e.calls)
    ELSE
      LET fir == [ FIRID |-> firID, FiledBy |-> a.filedBy,
                   Accused |-> a.accused, CrimeType |-> a.crimeType,
                   Description |-> a.description, Status |-> a.status,
                   Timestamp |-> a.timestamp ]
          firJSON == Marshal(fir, FIRTags)
      IN IF Fails(ctx, Len(e.calls) + 1)
         THEN Outcome(ctx.state, StorageError, <<>>,
                      Append(e.calls, Call("PutState", firID, FALSE)))
         ELSE Outcome(PutState(ctx.state, firID, firJSON), OK, <<>>,
                      Append(e.calls, Call("PutState", firID, TRUE)))

ReadFIR_Gated(ctx, firID) ==
  IF onlyPolice_FIR(ctx) # OK
  THEN Outcome(ctx.state, onlyPolice_FIR(ctx), <<>>, <<>>)
  ELSE IF Fails(ctx, 1)
  THEN Outcome(ctx.state, StorageError, <<>>,
               <<Call("GetState", firID, FALSE)>>)
  ELSE
    LET firJSON == GetState(ctx.state, firID)
        calls == <<Call("GetState", firID, TRUE)>>
    IN IF firJSON = <<>>
       THEN Outcome(ctx.state, NotFound, <<>>, calls)
       ELSE Outcome(ctx.state, OK, <<Unmarshal(firJSON[1], FIRTags)>>, calls)

ReadFIR(ctx, firID) ==
  IF Fails(ctx, 1)
  THEN Outcome(ctx.state, StorageError, <<>>,
               <<Call("GetState", firID, FALSE)>>)
  ELSE
    LET firJSON == GetState(ctx.state, firID)
        calls == <<Call("GetState", firID, TRUE)>>
    IN IF firJSON = <<>>
       THEN Outcome(ctx.state, NotFound, <<>>, calls)
       ELSE Outcome(ctx.state, OK, <<Unmarshal(firJSON[1], FIRTags)>>, calls)

UpdateFIR_FullReplace(ctx, firID, status) ==
  IF onlyPolice_FIR(ctx) # OK
  THEN Outcome(ctx.state, onlyPolice_FIR(ctx), <<>>, <<>>)
  ELSE
    LET r == ReadFIR(ctx, firID) IN
    IF r.err # OK THEN Outcome(ctx.state, r.err, <<>>, r.calls)
    ELSE
      LET fir == [ FIRID |-> firID, FiledBy |-> "", Accused |-> "",
                   CrimeType |-> "", Description |-> "", Status |-> status,
                   Timestamp |-> "" ]
          updatedJSON == Marshal(fir, FIRTags)
      IN IF Fails(ctx, Len(r.calls) + 1)
         THEN Outcome(ctx.state, StorageError, <<>>,
                      Append(r.calls, Call("PutState", firID, FALSE)))
         ELSE Outcome(PutState(ctx.state, firID, updatedJSON), OK, <<>>,
                      Append(r.calls, Call("PutState", firID, TRUE)))

\* deletes the stored record before it puts the updated one
UpdateFIR_DeleteThenPut(ctx, firID, status) ==
  IF onlyPolice_FIR(ctx) # OK
  THEN Outcome(ctx.state, onlyPolice_FIR(ctx), <<>>, <<>>)
  ELSE
    LET r == ReadFIR(ctx, firID) IN
    IF r.err # OK THEN Outcome(ctx.state, r.err, <<>>, r.calls)
    ELSE
      LET fir == [r.ret[1] EXCEPT !.Status = status]
          updatedJSON == Marshal(fir, FIRTags)
      IN IF Fails(ctx, Len(r.calls) + 1)
         THEN Outcome(ctx.state, StorageError, <<>>,
                      Append(r.calls, Call("DelState", firID, FALSE)))
         ELSE Outcome(PutState(DelState(ctx.state, firID), firID, updatedJSON),
                      OK, <<>>,
                      r.calls \o <<Call("DelState", firID, TRUE),
                                   Call("PutState", firID, TRUE)>>)

\* writes a record holding the status alone where the key is absent
UpdateFIR_Upsert(ctx, firID, status) ==
  IF onlyPolice_FIR(ctx) # OK
  THEN Outcome(ctx.state, onlyPolice_FIR(ctx), <<>>, <<>>)
  ELSE
    LET r == ReadFIR(ctx, firID) IN
    IF r.err \notin {OK, NotFound}
    THEN Outcome(ctx.state, r.err, <<>>, r.calls)
    ELSE
      LET old == IF r.err = OK THEN r.ret[1]
                 ELSE [ FIRID |-> firID, FiledBy |-> "", Accused |-> "",
                        CrimeType |-> "", Description |-> "", Status |-> "",
                        Timestamp |-> "" ]
          fir == [old EXCEPT !.Status = status]
          updatedJSON == Marshal(fir, FIRTags)
      IN IF Fails(ctx, Len(r.calls) + 1)
         THEN Outcome(ctx.state, StorageError, <<>>,
                      Append(r.calls, Call("PutState", firID, FALSE)))
         ELSE Outcome(PutState(ctx.state, firID, updatedJSON), OK, <<>>,
                      Append(r.calls, Call("PutState", firID, TRUE)))

\* puts the updated record under the identifier the stored record carries
UpdateFIR_KeyFromRecord(ctx, firID, status) ==
  IF onlyPolice_FIR(ctx) # OK
  THEN Outcome(ctx.state, onlyPolice_FIR(ctx), <<>>, <<>>)
  ELSE
    LET r == ReadFIR(ctx, firID) IN
    IF r.err # OK THEN Outcome(ctx.state, r.err, <<>>, r.calls)
    ELSE
      LET fir == [r.ret[1] EXCEPT !.Status = status]
          updatedJSON == Marshal(fir, FIRTags)
      IN IF Fails(ctx, Len(r.calls) + 1)
         THEN Outcome(ctx.state, StorageError, <<>>,
                      Append(r.calls, Call("PutState", fir.FIRID, FALSE)))
         ELSE Outcome(PutState(ctx.state, fir.FIRID, updatedJSON), OK, <<>>,
                      Append(r.calls, Call("PutState", fir.FIRID, TRUE)))

UpdateFIR(ctx, firID, status) ==
  IF onlyPolice_FIR(ctx) # OK
  THEN Outcome(ctx.state, onlyPolice_FIR(ctx), <<>>, <<>>)
  ELSE
    LET r == ReadFIR(ctx, firID) IN
    IF r.err # OK THEN Outcome(ctx.state, r.err, <<>>, r.calls)
    ELSE
      LET fir == [r.ret[1] EXCEPT !.Status = status]
          updatedJSON == Marshal(fir, FIRTags)
      IN IF Fails(ctx, Len(r.calls) + 1)
         THEN Outcome(ctx.state, StorageError, <<>>,
                      Append(r.calls, Call("PutState", firID, FALSE)))
         ELSE Outcome(PutState(ctx.state, firID, updatedJSON), OK, <<>>,
                      Append(r.calls, Call("PutState", firID, TRUE)))

DeleteFIR_NoExistsCheck(ctx, firID) ==
  IF onlyPolice_FIR(ctx) # OK
  THEN Outcome(ctx.state, onlyPolice_FIR(ctx), <<>>, <<>>)
  ELSE IF Fails(ctx, 1)
       THEN Outcome(ctx.state, StorageError, <<>>,
                    <<Call("DelState", firID, FALSE)>>)
       ELSE Outcome(DelState(ctx.state, firID), OK, <<>>,
                    <<Call("DelState", firID, TRUE)>>)

DeleteFIR(ctx, firID) ==
  IF onlyPolice_FIR(ctx) # OK
  THEN Outcome(ctx.state, onlyPolice_FIR(ctx), <<>>, <<>>)
  ELSE
    LET e == FIRExists(ctx, firID) IN
    IF e.err # OK THEN Outcome(ctx.state, e.err, <<>>, e.calls)
    ELSE IF ~e.ret[1] THEN Outcome(ctx.state, NotFound, <<>>, e.calls)
    ELSE IF Fails(ctx, Len(e.calls) + 1)
         THEN Outcome(ctx.state, StorageError, <<>>,
                      Append(e.calls, Call("DelState", firID, FALSE)))
         ELSE Outcome(DelState(ctx.state, firID), OK, <<>>,
                      Append(e.calls, Call("DelState", firID, TRUE)))

\* every element of the result is the record decoded last
RECURSIVE GetAllFIRsLoop_Aliased(_, _, _, _, _)
GetAllFIRsLoop_Aliased(ctx, keys, i, firs, calls) ==
  IF i > Len(keys)
  THEN Outcome(ctx.state, OK, firs, Append(calls, Call("Close", "", TRUE)))
  ELSE IF Fails(ctx, Len(calls) + 1)
       THEN Outcome(ctx.state, StorageError, <<>>,
                    calls \o <<Call("Next", keys[i], FALSE),
                               Call("Close", "", TRUE)>>)
       ELSE GetAllFIRsLoop_Aliased(ctx, keys, i + 1,
              [j \in 1..(Len(firs) + 1) |->
                 Unmarshal(ctx.state[keys[i]], FIRTags)],
              Append(calls, Call("Next", keys[i], TRUE)))

\* leaves out the values that do not decode to a record with an identifier
RECURSIVE GetAllFIRsLoop_SkipsForeign(_, _, _, _, _)
GetAllFIRsLoop_SkipsForeign(ctx, keys, i, firs, calls) ==
  IF i > Len(keys)
  THEN Outcome(ctx.state, OK, firs, Append(calls, Call("Close", "", TRUE)))
  ELSE IF Fails(ctx, Len(calls) + 1)
       THEN Outcome(ctx.state, StorageError, <<>>,
                    calls \o <<Call("Next", keys[i], FALSE),
                               Call("Close", "", TRUE)>>)
       ELSE LET fir == Unmarshal(ctx.state[keys[i]], FIRTags)
            IN GetAllFIRsLoop_SkipsForeign(ctx, keys, i + 1,
                 IF fir.FIRID = "" THEN firs ELSE Append(firs, fir),
                 Append(calls, Call("Next", keys[i], TRUE)))

\* the loop of GetAllFIRs from the i-th key of the iterator on; the deferred
\* resultsIterator.Close() runs on each return
RECURSIVE GetAllFIRsLoop(_, _, _, _, _)
GetAllFIRsLoop(ctx, keys, i, firs, calls) ==
  IF i > Len(keys)
  THEN Outcome(ctx.state, OK, firs, Append(calls, Call("Close", "", TRUE)))
  ELSE IF Fails(ctx, Len(calls) + 1)
       THEN Outcome(ctx.state, StorageError, <<>>,
                    calls \o <<Call("Next", keys[i], FALSE),
                               Call("Close", "", TRUE)>>)
       ELSE GetAllFIRsLoop(ctx, keys, i + 1,
                           Append(firs, Unmarshal(ctx.state[keys[i]], FIRTags)),
                           Append(calls, Call("Next", keys[i], TRUE)))

GetAllFIRs(ctx) ==
  IF Fails(ctx, 1)
  THEN Outcome(ctx.state, StorageError, <<>>,
               <<Call("GetStateByRange", "", FALSE)>>)
  ELSE GetAllFIRsLoop(ctx, GetStateByRange(ctx.state), 1, <<>>,
                      <<Call("GetStateByRange", "", TRUE)>>)

(***************************************************************************)
(* policeman-record/chaincode-go/smartcontract.go                          *)
(***************************************************************************)
getMSPID_Personnel(ctx) == ctx.identity

onlyPolice_Personnel(ctx) ==
  LET id == getMSPID_Personnel(ctx) IN
  IF id.err THEN AuthorizationDenied            \* "unable to get MSP ID"
  ELSE IF id.mspid # "Org1MSP" THEN AuthorizationDenied   \* "access denied"
  ELSE OK

PersonnelSeed ==
  << [ OfficerID |-> "POL12345", Name |-> "Inspector Anjali Mehta",
       Rank |-> "Inspector", DOB |-> "1985-08-15",
       Posting |-> "Cyber Crime Unit, Mumbai", BadgeNumber |-> "MUM-4521",
       EmploymentStatus |-> "Active", DateOfJoining |-> "2010-06-12",
       Award |-> "Gallantry Award 2018", Suspension |-> "",
       LastUpdatedBy |-> "Org1", LastUpdatedOn |-> "2025-04-06" ] >>

PolicePersonnel_SwapAwardSuspension(officerID, a) ==
  [ OfficerID |-> officerID, Name |-> a.name, Rank |-> a.rank, DOB |-> a.dob,
    Posting |-> a.posting, BadgeNumber |-> a.badgeNumber,
    EmploymentStatus |-> a.employmentStatus,
    DateOfJoining |-> a.dateOfJoining, Award |-> a.suspension,
    Suspension |-> a.award, LastUpdatedBy |-> a.lastUpdatedBy,
    LastUpdatedOn |-> a.lastUpdatedOn ]

\* the struct literal CreatePolicePersonnel and UpdatePolicePersonnel build
PolicePersonnel(officerID, a) ==
  [ OfficerID |-> officerID, Name |-> a.name, Rank |-> a.rank, DOB |-> a.dob,
    Posting |-> a.posting, BadgeNumber |-> a.badgeNumber,
    EmploymentStatus |-> a.employmentStatus,
    DateOfJoining |-> a.dateOfJoining, Award |-> a.award,
    Suspension |-> a.suspension, LastUpdatedBy |-> a.lastUpdatedBy,
    LastUpdatedOn |-> a.lastUpdatedOn ]

\* the loop of InitLedger from its i-th record on
RECURSIVE InitLedgerLoop_Personnel(_, _, _, _)
InitLedgerLoop_Personnel(ctx, i, st, calls) ==
  IF i > Len(PersonnelSeed) THEN Outcome(st, OK, <<>>, calls)
  ELSE
    LET p == PersonnelSeed[i]
        pJSON == Marshal(p, PersonnelTags)
    IN IF Fails(ctx, Len(calls) + 1)
       THEN Outcome(st, StorageError, <<>>,
                    Append(calls, Call("PutState", p.OfficerID, FALSE)))
       ELSE InitLedgerLoop_Personnel(ctx, i + 1,
                                     PutState(st, p.OfficerID, pJSON),
                                     Append(calls, Call("PutState", p.OfficerID, TRUE)))

InitLedger_Personnel(ctx) ==
  IF onlyPolice_Personnel(ctx) # OK
  THEN Outcome(ctx.state, onlyPolice_Personnel(ctx), <<>>, <<>>)
  ELSE InitLedgerLoop_Personnel(ctx, 1, ctx.state, <<>>)

\* reports an absent key as an error
PersonnelExists_ErrorOnAbsent(ctx, officerID) ==
  IF Fails(ctx, 1)
  THEN Outcome(ctx.state, StorageError, <<FALSE>>,
               <<Call("GetState", officerID, FALSE)>>)
  ELSE IF GetState(ctx.state, officerID) = <<>>
  THEN Outcome(ctx.state, NotFound, <<FALSE>>,
               <<Call("GetState", officerID, TRUE)>>)
  ELSE Outcome(ctx.state, OK, <<TRUE>>, <<Call("GetState", officerID, TRUE)>>)

PersonnelExists(ctx, officerID) ==
  IF Fails(ctx, 1)
  THEN Outcome(ctx.state, StorageError, <<FALSE>>,
               <<Call("GetState", officerID, FALSE)>>)
  ELSE Outcome(ctx.state, OK, <<GetState(ctx.state, officerID) # <<>> >>,
               <<Call("GetState", officerID, TRUE)>>)

\* puts the record without checking for the key
CreatePolicePersonnel_NoExistsCheck(ctx, officerID, a) ==
  IF onlyPolice_Personnel(ctx) # OK
  THEN Outcome(ctx.state, onlyPolice_Personnel(ctx), <<>>, <<>>)
  ELSE
    LET personnel == PolicePersonnel(officerID, a)
        pJSON == Marshal(personnel, PersonnelTags)
    IN IF Fails(ctx, 1)
       THEN Outcome(ctx.state, StorageError, <<>>,
                    <<Call("PutState", officerID, FALSE)>>)
       ELSE Outcome(PutState(ctx.state, officerID, pJSON), OK, <<>>,
                    <<Call("PutState", officerID, TRUE)>>)

\* puts the record first and checks for the key afterwards
CreatePolicePersonnel_PutFirst(ctx, officerID, a) ==
  IF onlyPolice_Personnel(ctx) # OK
  THEN Outcome(ctx.state, onlyPolice_Personnel(ctx), <<>>, <<>>)
  ELSE
    LET personnel == PolicePersonnel(officerID, a)
        pJSON == Marshal(personnel, PersonnelTags)
    IN IF Fails(ctx, 1)
       THEN Outcome(ctx.state, StorageError, <<>>,
                    <<Call("PutState", officerID, FALSE)>>)
       ELSE
         LET put == <<Call("PutState", officerID, TRUE)>>
             st == PutState(ctx.state, officerID, pJSON)
         IN IF Fails(ctx, 2)
            THEN Outcome(st, StorageError, <<>>,
                         Append(put, Call("GetState", officerID, FALSE)))
            ELSE IF officerID \in DOMAIN ctx.state
            THEN Outcome(st, AlreadyExists, <<>>,
                         Append(put, Call("GetState", officerID, TRUE)))
            ELSE Outcome(st, OK, <<>>,
                         Append(put, Call("GetState", officerID, TRUE)))

CreatePolicePersonnel(ctx, officerID, a) ==
  IF onlyPolice_Personnel(ctx) # OK
  THEN Outcome(ctx.state, onlyPolice_Personnel(ctx), <<>>, <<>>)
  ELSE
    LET e == PersonnelExists(ctx, officerID) IN
    IF e.err # OK THEN Outcome(ctx.state, e.err, <<>>, e.calls)
    ELSE IF e.ret[1] THEN Outcome(ctx.state, AlreadyExists, <<>>, e.calls)
    ELSE
      LET personnel == PolicePersonnel(officerID, a)
          pJSON == Marshal(personnel, PersonnelTags)
      IN IF Fails(ctx, Len(e.calls) + 1)
         THEN Outcome(ctx.state, StorageError, <<>>,
                      Append(e.calls, Call("PutState", officerID, FALSE)))
         ELSE Outcome(PutState(ctx.state, officerID, pJSON), OK, <<>>,
                      Append(e.calls, Call("PutState", officerID, TRUE)))

\* puts the decoded record back at its key before returning it
ReadPolicePersonnel_WritesBack(ctx, officerID) ==
  IF onlyPolice_Personnel(ctx) # OK
  THEN Outcome(ctx.state, onlyPolice_Personnel(ctx), <<>>, <<>>)
  ELSE IF Fails(ctx, 1)
  THEN Outcome(ctx.state, StorageError, <<>>,
               <<Call("GetState", officerID, FALSE)>>)
  ELSE
    LET pJSON == GetState(ctx.state, officerID)
        calls == <<Call("GetState", officerID, TRUE)>>
    IN IF pJSON = <<>>
       THEN Outcome(ctx.state, NotFound, <<>>, calls)
       ELSE LET personnel == Unmarshal(pJSON[1], PersonnelTags)
            IN Outcome(PutState(ctx.state, officerID,
                                Marshal(personnel, PersonnelTags)),
                       OK, <<personnel>>,
                       Append(calls, Call("PutState", officerID, TRUE)))

ReadPolicePersonnel(ctx, officerID) ==
  IF onlyPolice_Personnel(ctx) # OK
  THEN Outcome(ctx.state, onlyPolice_Personnel(ctx), <<>>, <<>>)
  ELSE IF Fails(ctx, 1)
  THEN Outcome(ctx.state, StorageError, <<>>,
               <<Call("GetState", officerID, FALSE)>>)
  ELSE
    LET pJSON == GetState(ctx.state, officerID)
        calls == <<Call("GetState", officerID, TRUE)>>
    IN IF pJSON = <<>>
       THEN Outcome(ctx.state, NotFound, <<>>, calls)
       ELSE Outcome(ctx.state, OK, <<Unmarshal(pJSON[1], PersonnelTags)>>,
                    calls)

\* leaves the officer identifier out of the record it builds
UpdatePolicePersonnel_NoOfficerID(ctx, officerID, a) ==
  IF onlyPolice_Personnel(ctx) # OK
  THEN Outcome(ctx.state, onlyPolice_Personnel(ctx), <<>>, <<>>)
  ELSE
    LET e == PersonnelExists(ctx, officerID) IN
    IF e.err # OK THEN Outcome(ctx.state, e.err, <<>>, e.calls)
    ELSE IF ~e.ret[1] THEN Outcome(ctx.state, NotFound, <<>>, e.calls)
    ELSE
      LET personnel == [PolicePersonnel(officerID, a) EXCEPT !.OfficerID = ""]
          pJSON == Marshal(personnel, PersonnelTags)
      IN IF Fails(ctx, Len(e.calls) + 1)
         THEN Outcome(ctx.state, StorageError, <<>>,
                      Append(e.calls, Call("PutState", officerID, FALSE)))
         ELSE Outcome(PutState(ctx.state, officerID, pJSON), OK, <<>>,
                      Append(e.calls, Call("PutState", officerID, TRUE)))

\* writes the record whether or not the key is present
UpdatePolicePersonnel_Upsert(ctx, officerID, a) ==
  IF onlyPolice_Personnel(ctx) # OK
  THEN Outcome(ctx.state, onlyPolice_Personnel(ctx), <<>>, <<>>)
  ELSE
    LET e == PersonnelExists(ctx, officerID) IN
    IF e.err # OK THEN Outcome(ctx.state, e.err, <<>>, e.calls)
    ELSE
      LET personnel == PolicePersonnel(officerID, a)
          pJSON == Marshal(personnel, PersonnelTags)
      IN IF Fails(ctx, Len(e.calls) + 1)
         THEN Outcome(ctx.state, StorageError, <<>>,
                      Append(e.calls, Call("PutState", officerID, FALSE)))
         ELSE Outcome(PutState(ctx.state, officerID, pJSON), OK, <<>>,
                      Append(e.calls, Call("PutState", officerID, TRUE)))

\* patches posting and award into the stored record
UpdatePolicePersonnel_Patch(ctx, officerID, a) ==
  IF onlyPolice_Personnel(ctx) # OK
  THEN Outcome(ctx.state, onlyPolice_Personnel(ctx), <<>>, <<>>)
  ELSE
    LET e == PersonnelExists(ctx, officerID) IN
    IF e.err # OK THEN Outcome(ctx.state, e.err, <<>>, e.calls)
    ELSE IF ~e.ret[1] THEN Outcome(ctx.state, NotFound, <<>>, e.calls)
    ELSE
      LET old == Unmarshal(ctx.state[officerID], PersonnelTags)
          personnel == [old EXCEPT !.OfficerID = officerID,
                                   !.Posting = a.posting, !.Award = a.award]
          pJSON == Marshal(personnel, PersonnelTags)
      IN IF Fails(ctx, Len(e.calls) + 1)
         THEN Outcome(ctx.state, StorageError, <<>>,
                      Append(e.calls, Call("PutState", officerID, FALSE)))
         ELSE Outcome(PutState(ctx.state, officerID, pJSON), OK, <<>>,
                      Append(e.calls, Call("PutState", officerID, TRUE)))

UpdatePolicePersonnel(ctx, officerID, a) ==
  IF onlyPolice_Personnel(ctx) # OK
  THEN Outcome(ctx.state, onlyPolice_Personnel(ctx), <<>>, <<>>)
  ELSE
    LET e == PersonnelExists(ctx, officerID) IN
    IF e.err # OK THEN Outcome(ctx.state, e.err, <<>>, e.calls)
    ELSE IF ~e.ret[1] THEN Outcome(ctx.state, NotFound, <<>>, e.calls)
    ELSE
      LET personnel == PolicePersonnel(officerID, a)
          pJSON == Marshal(personnel, PersonnelTags)
      IN IF Fails(ctx, Len(e.calls) + 1)
         THEN Outcome(ctx.state, StorageError, <<>>,
                      Append(e.calls, Call("PutState", officerID, FALSE)))
         ELSE Outcome(PutState(ctx.state, officerID, pJSON), OK, <<>>,
                      Append(e.calls, Call("PutState", officerID, TRUE)))

\* overwrites the record with an empty document instead of deleting the key
DeletePolicePersonnel_Tombstone(ctx, officerID) ==
  IF onlyPolice_Personnel(ctx) # OK
  THEN Outcome(ctx.state, onlyPolice_Personnel(ctx), <<>>, <<>>)
  ELSE
    LET e == PersonnelExists(ctx, officerID) IN
    IF e.err # OK THEN Outcome(ctx.state, e.err, <<>>, e.calls)
    ELSE IF ~e.ret[1] THEN Outcome(ctx.state, NotFound, <<>>, e.calls)
    ELSE IF Fails(ctx, Len(e.calls) + 1)
         THEN Outcome(ctx.state, StorageError, <<>>,
                      Append(e.calls, Call("PutState", officerID, FALSE)))
         ELSE Outcome(PutState(ctx.state, officerID, <<>>), OK, <<>>,
                      Append(e.calls, Call("PutState", officerID, TRUE)))

\* looks the key up before it asks who the caller is
DeletePolicePersonnel_ExistsBeforeGate(ctx, officerID) ==
  LET e == PersonnelExists(ctx, officerID) IN
  IF e.err # OK THEN Outcome(ctx.state, e.err, <<>>, e.calls)
  ELSE IF ~e.ret[1] THEN Outcome(ctx.state, NotFound, <<>>, e.calls)
  ELSE IF onlyPolice_Personnel(ctx) # OK
  THEN Outcome(ctx.state, onlyPolice_Personnel(ctx), <<>>, e.calls)
  ELSE IF Fails(ctx, Len(e.calls) + 1)
       THEN Outcome(ctx.state, StorageError, <<>>,
                    Append(e.calls, Call("DelState", officerID, FALSE)))
       ELSE Outcome(DelState(ctx.state, officerID), OK, <<>>,
                    Append(e.calls, Call("DelState", officerID, TRUE)))

DeletePolicePersonnel(ctx, officerID) ==
  IF onlyPolice_Personnel(ctx) # OK
  THEN Outcome(ctx.state, onlyPolice_Personnel(ctx), <<>>, <<>>)
  ELSE
    LET e == PersonnelExists(ctx, officerID) IN
    IF e.err # OK THEN Outcome(ctx.state, e.err, <<>>, e.calls)
    ELSE IF ~e.ret[1] THEN Outcome(ctx.state, NotFound, <<>>, e.calls)
    ELSE IF Fails(ctx, Len(e.calls) + 1)
         THEN Outcome(ctx.state, StorageError, <<>>,
                      Append(e.calls, Call("DelState", officerID, FALSE)))
         ELSE Outcome(DelState(ctx.state, officerID), OK, <<>>,
                      Append(e.calls, Call("DelState", officerID, TRUE)))

\* closes the iterator at the end of the loop only, not by defer
RECURSIVE GetAllPersonnelLoop_NoCloseOnError(_, _, _, _, _)
GetAllPersonnelLoop_NoCloseOnError(ctx, keys, i, personnelList, calls) ==
  IF i > Len(keys)
  THEN Outcome(ctx.state, OK, personnelList,
               Append(calls, Call("Close", "", TRUE)))
  ELSE IF Fails(ctx, Len(calls) + 1)
       THEN Outcome(ctx.state, StorageError, <<>>,
                    Append(calls, Call("Next", keys[i], FALSE)))
       ELSE GetAllPersonnelLoop_NoCloseOnError(ctx, keys, i + 1,
              Append(personnelList,
                     Unmarshal(ctx.state[keys[i]], PersonnelTags)),
              Append(calls, Call("Next", keys[i], TRUE)))

\* the loop of GetAllPersonnel from the i-th key of the iterator on; the
\* deferred resultsIterator.Close() runs on each return
RECURSIVE GetAllPersonnelLoop(_, _, _, _, _)
GetAllPersonnelLoop(ctx, keys, i, personnelList, calls) ==
  IF i > Len(keys)
  THEN Outcome(ctx.state, OK, personnelList,
               Append(calls, Call("Close", "", TRUE)))
  ELSE IF Fails(ctx, Len(calls) + 1)
       THEN Outcome(ctx.state, StorageError, <<>>,
                    calls \o <<Call("Next", keys[i], FALSE),
                               Call("Close", "", TRUE)>>)
       ELSE GetAllPersonnelLoop(ctx, keys, i + 1,
              Append(personnelList,
                     Unmarshal(ctx.state[keys[i]], PersonnelTags)),
              Append(calls, Call("Next", keys[i], TRUE)))

GetAllPersonnel(ctx) ==
  IF Fails(ctx, 1)
  THEN Outcome(ctx.state, StorageError, <<>>,
               <<Call("GetStateByRange", "", FALSE)>>)
  ELSE GetAllPersonnelLoop(ctx, GetStateByRange(ctx.state), 1, <<>>,
                           <<Call("GetStateByRange", "", TRUE)>>)

(***************************************************************************)
(* Inputs.  The field sets callers pass are the ones the repository's      *)
(* client applications and seeds use.                                      *)
(***************************************************************************)
FIRArgSeq ==
  << [ filedBy |-> "OfficerC", accused |-> "Robbery",
      crimeType |-> "Bank robbery at downtown", description |-> "Alex Murphy",
      status |-> "Open", timestamp |-> "2024-01-03T12:00:00Z" ],
    [ filedBy |-> "OfficerB", accused |-> "Jane Smith",
      crimeType |-> "Assault", description |-> "Physical altercation",
      status |-> "Investigation", timestamp |-> "2024-01-02T14:30:00Z" ],
    [ filedBy |-> "OfficerA", accused |-> "John Doe",
      crimeType |-> "Theft", description |-> "Stolen bike",
      status |-> "Open", timestamp |-> "2024-01-01T10:00:00Z" ] >>

FIRArgs == {FIRArgSeq[i] : i \in 1..NumFieldSets}

StatusArgs == {"Closed"}

PersonnelArgSeq ==
  << [ name |-> "Sub-Inspector Raj Kumar", rank |-> "Sub-Inspector",
      dob |-> "1990-01-25", posting |-> "Crime Branch, Delhi",
      badgeNumber |-> "DEL-7890", employmentStatus |-> "Active",
      dateOfJoining |-> "2015-07-10", award |-> "Meritorious Service Medal",
      suspension |-> "", lastUpdatedBy |-> "Org1",
      lastUpdatedOn |-> "2025-01-01" ],
    [ name |-> "Sub-Inspector Raj Kumar", rank |-> "Sub-Inspector",
      dob |-> "1990-01-25", posting |-> "Cyber Crime Cell, Delhi",
      badgeNumber |-> "DEL-7890", employmentStatus |-> "Active",
      dateOfJoining |-> "2015-07-10",
      award |-> "Meritorious Service Medal, Best Investigator 2024",
      suspension |-> "", lastUpdatedBy |-> "Org1",
      lastUpdatedOn |-> "2025-01-02" ],
    [ name |-> "Inspector Anjali Mehta", rank |-> "Inspector",
      dob |-> "1985-08-15", posting |-> "Cyber Crime Unit, Mumbai",
      badgeNumber |-> "MUM-4521", employmentStatus |-> "Active",
      dateOfJoining |-> "2010-06-12", award |-> "Gallantry Award 2018",
      suspension |-> "", lastUpdatedBy |-> "Org1",
      lastUpdatedOn |-> "2025-04-06" ] >>

PersonnelArgs == {PersonnelArgSeq[i] : i \in 1..NumFieldSets}

NoArgs == <<>>

(***************************************************************************)
(* The state machine.  state is the committed world state: a function from *)
(* the keys present to their JSON values.  last is the invocation whose     *)
(* response is being delivered: its inputs, the world state it ran against *)
(* (pre) and what it returned; NoInvocation when the contract is idle.     *)
(* Invocations are serialised: one starts only when the contract is idle.  *)
(* written is a history variable: while the world state has been built     *)
(* from the empty one by creates of one record kind only, it holds that    *)
(* kind and, per key, the field set the create was called with.            *)
(* iterators is the number of range iterators the invocations so far have  *)
(* opened on the store and not closed.                                     *)
(* writers is a history variable: the contracts ("fir", "personnel") whose *)
(* invocations have written to the world state since it was last empty.    *)
(***************************************************************************)
\* the contract an operation belongs to
ModuleOf(op) ==
  IF op \in {"InitLedger_FIR", "FileFIR", "ReadFIR", "UpdateFIR", "DeleteFIR",
             "FIRExists", "GetAllFIRs"}
  THEN "fir" ELSE "personnel"

Writers(w, op, out) ==
  IF out.err # OK \/ \A i \in 1..Len(out.calls) :
                        out.calls[i].op \notin {"PutState", "DelState"}
  THEN w
  ELSE IF out.state = <<>> THEN {}
  ELSE w \cup {ModuleOf(op)}

\* how many of the store calls are successful calls of op
RECURSIVE CountCalls(_, _)
CountCalls(calls, op) ==
  IF calls = <<>> THEN 0
  ELSE (IF calls[1].op = op /\ calls[1].ok THEN 1 ELSE 0)
         + CountCalls(Tail(calls), op)

NoneWritten == [kind |-> "none", recs |-> <<>>]

OtherWrites == [kind |-> "other", recs |-> <<>>]

Written(w, op, key, args, out) ==
  LET kind == IF op = "CreatePolicePersonnel" THEN "personnel"
              ELSE IF op = "FileFIR" THEN "fir" ELSE "other"
  IN IF out.err # OK \/ \A i \in 1..Len(out.calls) :
                         out.calls[i].op \notin {"PutState", "DelState"}
     THEN w
     ELSE IF out.state = <<>> THEN NoneWritten
     ELSE IF kind # "other" /\ w.kind \in {"none", kind}
          THEN [kind |-> kind, recs |-> PutState(w.recs, key, args)]
          ELSE OtherWrites
NoInvocation ==
  [ op |-> "none", identity |-> Org1, key |-> "", args |-> NoArgs,
    fail |-> 0, err |-> OK, ret |-> <<>>, calls |-> <<>>, pre |-> <<>> ]

Init ==
  /\ state = <<>>
  /\ last = NoInvocation
  /\ written = NoneWritten
  /\ iterators = 0
  /\ writers = {}

\* The platform runs one invocation: fail names the store call that fails
\* (0: none); the writes of an invocation that returns an error are not
\* committed.
Invoke(op, id, key, args, fail, out) ==
  /\ IF fail = 0 THEN TRUE
     ELSE IF fail <= Len(out.calls) THEN ~out.calls[fail].ok ELSE FALSE
  /\ state' = IF out.err = OK THEN out.state ELSE state
  /\ last' = [ op |-> op, identity |-> id, key |-> key, args |-> args,
               fail |-> fail, err |-> out.err, ret |-> out.ret,
               calls |-> out.calls, pre |-> state ]
  /\ written' = Written(written, op, key, args, out)
  /\ iterators' = (iterators + CountCalls(out.calls, "GetStateByRange"))
                    - CountCalls(out.calls, "Close")
  /\ writers' = Writers(writers, op, out)

Idle == last = NoInvocation

\* the most store calls one invocation issues: the range scan and one Next
\* per key
MaxStoreCalls == Cardinality(Keys) + 1

DoInitLedger_FIR ==
  /\ Idle
  /\ \E id \in Identities, fail \in 0..2 :
       Invoke("InitLedger_FIR", id, "", NoArgs, fail,
              InitLedger_FIR(Ctx(id, fail, state)))

DoFileFIR ==
  /\ Idle
  /\ \E id \in Identities, k \in Keys, a \in FIRArgs, fail \in 0..2 :
       Invoke("FileFIR", id, k, a, fail, FileFIR(Ctx(id, fail, state), k, a))

DoReadFIR ==
  /\ Idle
  /\ \E id \in Identities, k \in Keys, fail \in 0..1 :
       Invoke("ReadFIR", id, k, NoArgs, fail, ReadFIR(Ctx(id, fail, state), k))

DoUpdateFIR ==
  /\ Idle
  /\ \E id \in Identities, k \in Keys, s \in StatusArgs, fail \in 0..2 :
       Invoke("UpdateFIR", id, k, [status |-> s], fail,
              UpdateFIR(Ctx(id, fail, state), k, s))

DoDeleteFIR ==
  /\ Idle
  /\ \E id \in Identities, k \in Keys, fail \in 0..2 :
       Invoke("DeleteFIR", id, k, NoArgs, fail,
              DeleteFIR(Ctx(id, fail, state), k))

DoFIRExists ==
  /\ Idle
  /\ \E id \in Identities, k \in Keys, fail \in 0..1 :
       Invoke("FIRExists", id, k, NoArgs, fail,
              FIRExists(Ctx(id, fail, state), k))

DoGetAllFIRs ==
  /\ Idle
  /\ \E id \in Identities, fail \in 0..MaxStoreCalls :
       Invoke("GetAllFIRs", id, "", NoArgs, fail,
              GetAllFIRs(Ctx(id, fail, state)))

DoInitLedger_Personnel ==
  /\ Idle
  /\ \E id \in Identities, fail \in 0..1 :
       Invoke("InitLedger_Personnel", id, "", NoArgs, fail,
              InitLedger_Personnel(Ctx(id, fail, state)))

DoCreatePolicePersonnel ==
  /\ Idle
  /\ \E id \in Identities, k \in Keys, a \in PersonnelArgs,
        fail \in 0..2 :
       Invoke("CreatePolicePersonnel", id, k, a, fail,
              CreatePolicePersonnel(Ctx(id, fail, state), k, a))

DoReadPolicePersonnel ==
  /\ Idle
  /\ \E id \in Identities, k \in Keys, fail \in 0..1 :
       Invoke("ReadPolicePersonnel", id, k, NoArgs, fail,
              ReadPolicePersonnel(Ctx(id, fail, state), k))

DoUpdatePolicePersonnel ==
  /\ Idle
  /\ \E id \in Identities, k \in Keys, a \in PersonnelArgs,
        fail \in 0..2 :
       Invoke("UpdatePolicePersonnel", id, k, a, fail,
              UpdatePolicePersonnel(Ctx(id, fail, state), k, a))

DoDeletePolicePersonnel ==
  /\ Idle
  /\ \E id \in Identities, k \in Keys, fail \in 0..2 :
       Invoke("DeletePolicePersonnel", id, k, NoArgs, fail,
              DeletePolicePersonnel(Ctx(id, fail, state), k))

DoPersonnelExists ==
  /\ Idle
  /\ \E id \in Identities, k \in Keys, fail \in 0..1 :
       Invoke("PersonnelExists", id, k, NoArgs, fail,
              PersonnelExists(Ctx(id, fail, state), k))

DoGetAllPersonnel ==
  /\ Idle
  /\ \E id \in Identities, fail \in 0..MaxStoreCalls :
       Invoke("GetAllPersonnel", id, "", NoArgs, fail,
              GetAllPersonnel(Ctx(id, fail, state)))

\* the response of the invocation has been delivered to the caller
Respond ==
  /\ last # NoInvocation
  /\ last' = NoInvocation
  /\ UNCHANGED <<state, written, iterators, writers>>

Next ==
  \/ DoInitLedger_FIR
  \/ DoFileFIR
  \/ DoReadFIR
  \/ DoUpdateFIR
  \/ DoDeleteFIR
  \/ DoFIRExists
  \/ DoGetAllFIRs
  \/ DoInitLedger_Personnel
  \/ DoCreatePolicePersonnel
  \/ DoReadPolicePersonnel
  \/ DoUpdatePolicePersonnel
  \/ DoDeletePolicePersonnel
  \/ DoPersonnelExists
  \/ DoGetAllPersonnel
  \/ Respond

Spec == Init /\ [][Next]_vars

(***************************************************************************)
(* Properties.  What they expect is written out here independently of the  *)
(* definitions above.                                                      *)
(***************************************************************************)
\* the caller's organization identifier was extracted and is Org1MSP
Authorized(id) == ~id.err /\ id.mspid = "Org1MSP"

\* the invocation issued no put and no delete
NoWriteCalls(calls) ==
  \A i \in 1..Len(calls) : calls[i].op \notin {"PutState", "DelState"}

\* the record a personnel create or update with field set a stores at k
ExpectedPersonnel(k, a) ==
  [ OfficerID |-> k, Name |-> a.name, Rank |-> a.rank, DOB |-> a.dob,
    Posting |-> a.posting, BadgeNumber |-> a.badgeNumber,
    EmploymentStatus |-> a.employmentStatus,
    DateOfJoining |-> a.dateOfJoining, Award |-> a.award,
    Suspension |-> a.suspension, LastUpdatedBy |-> a.lastUpdatedBy,
    LastUpdatedOn |-> a.lastUpdatedOn ]

\* the record FileFIR with field set a stores at k
ExpectedFIR(k, a) ==
  [ FIRID |-> k, FiledBy |-> a.filedBy, Accused |-> a.accused,
    CrimeType |-> a.crimeType, Description |-> a.description,
    Status |-> a.status, Timestamp |-> a.timestamp ]

\* the JSON documents of the two kinds, member by member
PersonnelJSON(p) ==
  [ officerId |-> p.OfficerID, name |-> p.Name, rank |-> p.Rank,
    dob |-> p.DOB, posting |-> p.Posting, badgeNumber |-> p.BadgeNumber,
    employmentStatus |-> p.EmploymentStatus,
    dateOfJoining |-> p.DateOfJoining, award |-> p.Award,
    suspension |-> p.Suspension, lastUpdatedBy |-> p.LastUpdatedBy,
    lastUpdatedOn |-> p.LastUpdatedOn ]

FIRJSON(f) ==
  [ Accused |-> f.Accused, CrimeType |-> f.CrimeType,
    Description |-> f.Description, FiledBy |-> f.FiledBy, FIRID |-> f.FIRID,
    Status |-> f.Status, Timestamp |-> f.Timestamp ]

CreateOps == {"CreatePolicePersonnel", "FileFIR"}

UpdateOps == {"UpdatePolicePersonnel", "UpdateFIR"}

DeleteOps == {"DeletePolicePersonnel", "DeleteFIR"}

GatedOps ==
  CreateOps \cup UpdateOps \cup DeleteOps
    \cup {"ReadPolicePersonnel", "InitLedger_Personnel"}

\* C1: round trip, both kinds.  After a successful create of key k, absent
\* before, with field set f by an authorized caller, a read of k that comes
\* next (ReadFIR by any caller, ReadPolicePersonnel by an authorized one, the
\* store's get not failing) returns the record with key field k and every
\* other field as in f.
C1_CreateThenRead ==
  (/\ last.op \in CreateOps
   /\ last.err = OK
   /\ Authorized(last.identity)
   /\ last.key \notin DOMAIN last.pre)
  => IF last.op = "FileFIR"
     THEN \A id \in Identities :
            LET r == ReadFIR(Ctx(id, 0, state), last.key) IN
            /\ r.err = OK
            /\ r.ret = <<ExpectedFIR(last.key, last.args)>>
     ELSE LET r == ReadPolicePersonnel(Ctx(last.identity, 0, state), last.key)
          IN /\ r.err = OK
             /\ r.ret = <<ExpectedPersonnel(last.key, last.args)>>

C1_Witness ==
  /\ last.op = "CreatePolicePersonnel"
  /\ last.err = OK
  /\ last.key \notin DOMAIN last.pre
  /\ last.key \in DOMAIN state
  /\ \E j \in DOMAIN state : state[j] = FIRJSON(ExpectedFIR(j, FIRArgSeq[1]))

\* C2: primary-key uniqueness, both kinds.  A create by an authorized caller
\* of a key that is present (the store's get not failing) fails with
\* AlreadyExists, issues no write, and leaves the world state, the value at
\* the key included, as it was.
C2_CreateTwice ==
  (/\ last.op \in CreateOps
   /\ Authorized(last.identity)
   /\ last.key \in DOMAIN last.pre
   /\ last.fail = 0)
  => /\ last.err = AlreadyExists
     /\ NoWriteCalls(last.calls)
     /\ state = last.pre
     /\ state[last.key] = last.pre[last.key]

C2_Witness ==
  /\ last.op = "FileFIR"
  /\ last.err = AlreadyExists
  /\ last.key \in DOMAIN state
  /\ state[last.key] # FIRJSON(ExpectedFIR(last.key, last.args))
  /\ \E a \in FIRArgs : state[last.key] = FIRJSON(ExpectedFIR(last.key, a))

\* C3: the authorization gate.  On every gated operation a caller passes the
\* gate (the call does not fail with AuthorizationDenied) exactly when its
\* organization identifier was extracted and is Org1MSP; any other caller
\* gets AuthorizationDenied, no store call is made and the world state is as
\* before.
C3_Gate ==
  /\ \A id \in Identities :
       /\ (onlyPolice_FIR(Ctx(id, 0, state)) = OK) <=> Authorized(id)
       /\ (onlyPolice_Personnel(Ctx(id, 0, state)) = OK) <=> Authorized(id)
       /\ onlyPolice_FIR(Ctx(id, 0, state)) \in {OK, AuthorizationDenied}
       /\ onlyPolice_Personnel(Ctx(id, 0, state)) \in {OK, AuthorizationDenied}
  /\ last.op \in GatedOps =>
       IF Authorized(last.identity)
       THEN last.err # AuthorizationDenied
       ELSE /\ last.err = AuthorizationDenied
            /\ last.calls = <<>>
            /\ state = last.pre

C3_Witness ==
  /\ last.op = "UpdateFIR"
  /\ last.identity.mspid = "Org2MSP"
  /\ last.err = AuthorizationDenied
  /\ last.key \in DOMAIN state

\* what the caller of an invocation sees: the error and the returned value
Result(out) == <<out.err, out.ret>>

\* C4: per-operation gate coverage.  Create, update and delete of both
\* kinds and ReadPolicePersonnel are gated: to a caller that is not an
\* extracted Org1MSP they return AuthorizationDenied, for ReadPolicePersonnel
\* whether or not the key is present.  ReadFIR, FIRExists, GetAllFIRs,
\* PersonnelExists and GetAllPersonnel are not: in every world state each
\* returns to every caller what it returns to an Org1MSP caller.
C4_GateCoverage ==
  /\ Idle =>
       \A id \in Identities :
         /\ Result(GetAllFIRs(Ctx(id, 0, state)))
              = Result(GetAllFIRs(Ctx(Org1, 0, state)))
         /\ Result(GetAllPersonnel(Ctx(id, 0, state)))
              = Result(GetAllPersonnel(Ctx(Org1, 0, state)))
         /\ \A k \in Keys :
              /\ Result(ReadFIR(Ctx(id, 0, state), k))
                   = Result(ReadFIR(Ctx(Org1, 0, state), k))
              /\ Result(FIRExists(Ctx(id, 0, state), k))
                   = Result(FIRExists(Ctx(Org1, 0, state), k))
              /\ Result(PersonnelExists(Ctx(id, 0, state), k))
                   = Result(PersonnelExists(Ctx(Org1, 0, state), k))
              /\ ~Authorized(id) =>
                   /\ ReadPolicePersonnel(Ctx(id, 0, state), k).err
                        = AuthorizationDenied
                   /\ DeletePolicePersonnel(Ctx(id, 0, state), k).err
                        = AuthorizationDenied
                   /\ DeleteFIR(Ctx(id, 0, state), k).err = AuthorizationDenied
                   /\ \A s \in StatusArgs :
                        UpdateFIR(Ctx(id, 0, state), k, s).err
                          = AuthorizationDenied
                   /\ \A a \in FIRArgs :
                        FileFIR(Ctx(id, 0, state), k, a).err
                          = AuthorizationDenied
                   /\ \A a \in PersonnelArgs :
                        /\ CreatePolicePersonnel(Ctx(id, 0, state), k, a).err
                             = AuthorizationDenied
                        /\ UpdatePolicePersonnel(Ctx(id, 0, state), k, a).err
                             = AuthorizationDenied
  /\ (last.op \in {"ReadFIR", "FIRExists", "GetAllFIRs", "PersonnelExists",
                   "GetAllPersonnel"} /\ last.fail = 0)
       => last.err # AuthorizationDenied
  /\ (last.op = "ReadPolicePersonnel" /\ ~Authorized(last.identity))
       => last.err = AuthorizationDenied

C4_Witness ==
  /\ last.op = "ReadFIR"
  /\ last.identity.mspid = "Org2MSP"
  /\ last.err = OK
  /\ "POL12345" \in DOMAIN state
  /\ "officerId" \in DOMAIN state["POL12345"]
  /\ ReadPolicePersonnel(Ctx(last.identity, 0, state), "POL12345").err
       = AuthorizationDenied

\* C5: update of an absent key, both kinds.  By an authorized caller (the
\* store's get not failing) it fails with NotFound, issues no put, and
\* leaves the key absent and every other key as it was.
C5_UpdateAbsent ==
  (/\ last.op \in UpdateOps
   /\ Authorized(last.identity)
   /\ last.key \notin DOMAIN last.pre
   /\ last.fail = 0)
  => /\ last.err = NotFound
     /\ NoWriteCalls(last.calls)
     /\ last.key \notin DOMAIN state
     /\ state = last.pre

C5_Witness ==
  /\ last.op = "UpdatePolicePersonnel"
  /\ Authorized(last.identity)
  /\ last.err = NotFound
  /\ last.key \notin DOMAIN state
  /\ DOMAIN state # {}

\* C6: delete of an absent key, both kinds.  By an authorized caller (the
\* store's get not failing) it fails with NotFound, issues no delete, and
\* leaves the world state as it was; so does a second delete of a key right
\* after a successful one.
C6_DeleteAbsent ==
  /\ (/\ last.op \in DeleteOps
      /\ Authorized(last.identity)
      /\ last.key \notin DOMAIN last.pre
      /\ last.fail = 0)
     => /\ last.err = NotFound
        /\ NoWriteCalls(last.calls)
        /\ state = last.pre
  /\ (last.op \in DeleteOps /\ last.err = OK)
     => LET again == IF last.op = "DeleteFIR"
                     THEN DeleteFIR(Ctx(last.identity, 0, state), last.key)
                     ELSE DeletePolicePersonnel(Ctx(last.identity, 0, state),
                                                last.key)
        IN /\ again.err = NotFound
           /\ NoWriteCalls(again.calls)
           /\ again.state = state

C6_Witness ==
  /\ last.op = "DeleteFIR"
  /\ Authorized(last.identity)
  /\ last.err = NotFound
  /\ DOMAIN state # {}

\* a seed that completed wrote these keys
SeedWrites(op) ==
  IF op = "InitLedger_FIR" THEN {"FIR1", "FIR2"}
  ELSE IF op = "InitLedger_Personnel" THEN {"POL12345"} ELSE {}

\* C7, in every state: a successful delete leaves its key absent and a
\* successful create leaves it present; a read of an absent key fails with
\* NotFound and exists returns false for it, and exists returns true for a
\* present key.
C7_State ==
  /\ (last.op \in DeleteOps /\ last.err = OK) => last.key \notin DOMAIN state
  /\ (last.op \in CreateOps /\ last.err = OK) => last.key \in DOMAIN state
  /\ Idle =>
       \A k \in Keys, id \in Identities :
         /\ Result(FIRExists(Ctx(id, 0, state), k))
              = <<OK, <<k \in DOMAIN state>> >>
         /\ Result(PersonnelExists(Ctx(id, 0, state), k))
              = <<OK, <<k \in DOMAIN state>> >>
         /\ k \notin DOMAIN state =>
              /\ ReadFIR(Ctx(id, 0, state), k).err = NotFound
              /\ Authorized(id) =>
                   ReadPolicePersonnel(Ctx(id, 0, state), k).err = NotFound

\* C7, in every step: an absent key becomes present only by a successful
\* create of it or a successful seed that writes it, and a present key
\* becomes absent only by a successful delete of it.
C7_Step ==
  \A k \in Keys :
    /\ (k \notin DOMAIN state /\ k \in DOMAIN state')
         => /\ last'.err = OK
            /\ \/ last'.op \in CreateOps /\ last'.key = k
               \/ k \in SeedWrites(last'.op)
    /\ (k \in DOMAIN state /\ k \notin DOMAIN state')
         => /\ last'.err = OK
            /\ last'.op \in DeleteOps
            /\ last'.key = k

\* C7: delete is a hard removal.  From a successful delete of k until the
\* next successful create of k or seed that writes k, read of k fails with
\* NotFound and exists(k) is false; from a successful create of k until the
\* next successful delete of k, exists(k) is true.
C7_HardDelete == []C7_State /\ [][C7_Step]_vars

C7_Witness ==
  /\ last.op = "DeletePolicePersonnel"
  /\ last.err = OK
  /\ last.key \in DOMAIN last.pre
  /\ last.key \notin DOMAIN state
  /\ DOMAIN state # {}

FIRFields ==
  {"Accused", "CrimeType", "Description", "FiledBy", "FIRID", "Status",
   "Timestamp"}

\* a JSON document read as a case record, member by member
DecodeFIR(blob) ==
  [ f \in FIRFields |-> IF f \in DOMAIN blob THEN blob[f] ELSE "" ]

\* every key but k is present, and holds, in st2 what it does in st1
SameButAt(st1, st2, k) ==
  \A j \in Keys \ {k} :
    /\ j \in DOMAIN st1 <=> j \in DOMAIN st2
    /\ j \in DOMAIN st1 => st1[j] = st2[j]

\* C8: UpdateFIR(k, s) by an authorized caller on a present key (no store
\* call failing) succeeds; ReadFIR(k) then returns a record with Status s
\* and with FIRID, FiledBy, Accused, CrimeType, Description and Timestamp as
\* ReadFIR(k) returned them before the call; no other key is changed.
C8_UpdateStatus ==
  (/\ last.op = "UpdateFIR"
   /\ Authorized(last.identity)
   /\ last.key \in DOMAIN last.pre
   /\ last.fail = 0)
  => LET before == ReadFIR(Ctx(Org1, 0, last.pre), last.key)
         after == ReadFIR(Ctx(Org1, 0, state), last.key)
     IN /\ last.err = OK
        /\ before.err = OK
        /\ after.err = OK
        /\ after.ret[1].Status = last.args.status
        /\ \A f \in FIRFields \ {"Status"} :
             after.ret[1][f] = before.ret[1][f]
        /\ after.ret[1] = [DecodeFIR(last.pre[last.key])
                             EXCEPT !["Status"] = last.args.status]
        /\ SameButAt(last.pre, state, last.key)

C8_Witness ==
  /\ last.op = "UpdateFIR"
  /\ last.err = OK
  /\ "FIRID" \in DOMAIN last.pre[last.key]
  /\ last.pre[last.key]["Status"] = "Investigation"
  /\ state[last.key]["Status"] = "Closed"
  /\ state[last.key]["FiledBy"] = "OfficerB"
  /\ \E j \in DOMAIN state : j # last.key

\* C9 as claimed: after a successful update of either kind the value at
\* the key is built from the arguments of the call alone; nothing of the
\* record stored before is in it.
C9_FullReplaceBothKinds ==
  (last.op \in UpdateOps /\ last.err = OK)
  => state[last.key] =
       IF last.op = "UpdateFIR"
       THEN FIRJSON([ FIRID |-> last.key, FiledBy |-> "", Accused |-> "",
                      CrimeType |-> "", Description |-> "",
                      Status |-> last.args.status, Timestamp |-> "" ])
       ELSE PersonnelJSON(ExpectedPersonnel(last.key, last.args))

\* C9, amended: after a successful UpdatePolicePersonnel the value at the
\* key is built from the arguments of the call alone, whatever was stored
\* before; after a successful UpdateFIR the value at the key is the record
\* stored before with its Status replaced by the status of the call.
C9_FullReplacePersonnelOnly ==
  /\ (last.op = "UpdatePolicePersonnel" /\ last.err = OK)
       => state[last.key] = PersonnelJSON(ExpectedPersonnel(last.key, last.args))
  /\ (last.op = "UpdateFIR" /\ last.err = OK)
       => state[last.key] =
            [ DecodeFIR(last.pre[last.key]) EXCEPT !["Status"] = last.args.status ]

C9_Witness ==
  /\ last.op = "UpdatePolicePersonnel"
  /\ last.err = OK
  /\ "officerId" \in DOMAIN last.pre[last.key]
  /\ \A m \in {"posting", "award", "lastUpdatedOn"} :
       last.pre[last.key][m] # state[last.key][m]

\* the elements of a sequence
Range(seq) == {seq[i] : i \in 1..Len(seq)}

\* C10: enumeration after creates.  When the world state has been built
\* from the empty one by N successful creates of one kind, with distinct
\* keys, and no other write, the scan of that kind (no store call failing)
\* returns exactly N records: for each created key the record with that key
\* and the fields the create was called with, and nothing else.
C10_ScanAfterCreates ==
  /\ written.kind # "other" => DOMAIN written.recs = DOMAIN state
  /\ (/\ last.op = "GetAllPersonnel"
      /\ last.fail = 0
      /\ written.kind \in {"none", "personnel"})
     => /\ last.err = OK
        /\ Len(last.ret) = Cardinality(DOMAIN written.recs)
        /\ Range(last.ret) =
             {ExpectedPersonnel(k, written.recs[k]) : k \in DOMAIN written.recs}
  /\ (/\ last.op = "GetAllFIRs"
      /\ last.fail = 0
      /\ written.kind \in {"none", "fir"})
     => /\ last.err = OK
        /\ Len(last.ret) = Cardinality(DOMAIN written.recs)
        /\ Range(last.ret) =
             {ExpectedFIR(k, written.recs[k]) : k \in DOMAIN written.recs}

C10_Witness ==
  /\ last.op = "GetAllFIRs"
  /\ last.err = OK
  /\ written.kind = "fir"
  /\ Len(last.ret) = Cardinality(Keys)
  /\ \E i, j \in 1..Len(last.ret) : last.ret[i].FiledBy # last.ret[j].FiledBy

\* the record a completed seed leaves at each of its keys
SeedRecord(k) ==
  IF k = "FIR1" THEN FIRJSON(ExpectedFIR("FIR1", FIRArgSeq[3]))
  ELSE IF k = "FIR2" THEN FIRJSON(ExpectedFIR("FIR2", FIRArgSeq[2]))
  ELSE PersonnelJSON(ExpectedPersonnel("POL12345", PersonnelArgSeq[3]))

SeedOps == {"InitLedger_FIR", "InitLedger_Personnel"}

\* every key outside ks is present, and holds, in st2 what it does in st1
SameOutside(st1, st2, ks) ==
  \A j \in (DOMAIN st1 \cup DOMAIN st2) \ ks :
    /\ j \in DOMAIN st1
    /\ j \in DOMAIN st2
    /\ st1[j] = st2[j]

\* C11: seeding overwrites and is idempotent.  After a successful seed each
\* of its keys (POL12345; FIR1 and FIR2) holds its fixed record, whether the
\* key was absent or held another value before, every other key is as it
\* was, and the same seed run again succeeds and leaves the world state as
\* it is.
C11_SeedOverwrites ==
  (last.op \in SeedOps /\ last.err = OK)
  => /\ \A k \in SeedWrites(last.op) :
          /\ k \in DOMAIN state
          /\ state[k] = SeedRecord(k)
     /\ SameOutside(last.pre, state, SeedWrites(last.op))
     /\ LET again == IF last.op = "InitLedger_FIR"
                     THEN InitLedger_FIR(Ctx(last.identity, 0, state))
                     ELSE InitLedger_Personnel(Ctx(last.identity, 0, state))
        IN /\ again.err = OK
           /\ again.state = state

C11_Witness ==
  /\ last.op = "InitLedger_FIR"
  /\ last.err = OK
  /\ "FIR1" \in DOMAIN last.pre
  /\ "Status" \in DOMAIN last.pre["FIR1"]
  /\ last.pre["FIR1"]["Status"] = "Closed"
  /\ state["FIR1"]["Status"] = "Open"
  /\ "FIR2" \notin DOMAIN last.pre
  /\ "POL12345" \in DOMAIN state

PersonnelOps ==
  {"InitLedger_Personnel", "CreatePolicePersonnel", "ReadPolicePersonnel",
   "UpdatePolicePersonnel", "DeletePolicePersonnel", "PersonnelExists",
   "GetAllPersonnel"}

\* C12: the seeding gate differs between the contracts.  InitLedger of the
\* personnel contract called by anyone but an extracted Org1MSP fails with
\* AuthorizationDenied and writes nothing; InitLedger of the case contract
\* (no store call failing) succeeds for every caller and writes FIR1 and
\* FIR2.  No operation of the personnel contract called by anyone but an
\* extracted Org1MSP issues a write or changes the world state.
C12_SeedGateAsymmetry ==
  /\ (last.op = "InitLedger_Personnel" /\ ~Authorized(last.identity))
       => /\ last.err = AuthorizationDenied
          /\ last.calls = <<>>
          /\ state = last.pre
  /\ (last.op = "InitLedger_FIR" /\ last.fail = 0)
       => /\ last.err = OK
          /\ last.calls = << [op |-> "PutState", key |-> "FIR1", ok |-> TRUE],
                             [op |-> "PutState", key |-> "FIR2", ok |-> TRUE] >>
          /\ \A k \in {"FIR1", "FIR2"} :
               k \in DOMAIN state /\ state[k] = SeedRecord(k)
  /\ (last.op \in PersonnelOps /\ ~Authorized(last.identity))
       => /\ NoWriteCalls(last.calls)
          /\ state = last.pre

C12_Witness ==
  /\ last.op = "InitLedger_FIR"
  /\ last.identity.mspid = "Org2MSP"
  /\ last.err = OK
  /\ "FIR2" \in DOMAIN last.pre
  /\ "Status" \in DOMAIN last.pre["FIR2"]
  /\ last.pre["FIR2"]["Status"] = "Closed"
  /\ state["FIR2"]["Status"] = "Investigation"

ExistsOps == {"PersonnelExists", "FIRExists"}

\* C13: exists.  PersonnelExists / FIRExists of key k, the store's get not
\* failing, returns no error and the value true exactly when k is present in
\* the world state it runs against (false on an absent key); it returns an
\* error only when the get fails, and it changes nothing.
C13_ExistsIffPresent ==
  last.op \in ExistsOps
  => /\ last.fail = 0 =>
          /\ last.err = OK
          /\ last.ret = << last.key \in DOMAIN last.pre >>
     /\ last.err # OK =>
          /\ last.fail = 1
          /\ last.err = StorageError
          /\ last.calls = << [op |-> "GetState", key |-> last.key,
                              ok |-> FALSE] >>
     /\ NoWriteCalls(last.calls)
     /\ state = last.pre

C13_Witness ==
  /\ last.op = "PersonnelExists"
  /\ last.err = OK
  /\ last.ret = <<FALSE>>
  /\ last.key \notin DOMAIN state
  /\ DOMAIN state # {}

\* the successful puts and deletes among the store calls, in order
AppliedWrites(calls) ==
  SelectSeq(calls, LAMBDA c : c.op \in {"PutState", "DelState"} /\ c.ok)

\* the puts and deletes issued, successful or not, in order
IssuedWrites(calls) ==
  SelectSeq(calls, LAMBDA c : c.op \in {"PutState", "DelState"})

\* C14 as claimed: an invocation of any operation that returns an error has
\* had no put and no delete applied before it failed, and the world state
\* after it is the world state before it.
C14_NoPartialApplication ==
  last.err # OK
  => /\ AppliedWrites(last.calls) = <<>>
     /\ state = last.pre

\* C14, amended: an invocation that returns an error leaves the committed
\* world state as it was.  Every operation but InitLedger of the case
\* contract has had no put and no delete applied when it fails; InitLedger of
\* the case contract fails only on a failing put, and when that is its
\* second put, the put of FIR1 has been applied before (and is not
\* committed).
C14_NoPartialApplicationButSeedCases ==
  last.err # OK
  => /\ state = last.pre
     /\ last.op # "InitLedger_FIR" => AppliedWrites(last.calls) = <<>>
     /\ last.op = "InitLedger_FIR" =>
          /\ last.err = StorageError
          /\ last.fail \in {1, 2}
          /\ AppliedWrites(last.calls) =
               IF last.fail = 1 THEN <<>>
               ELSE << [op |-> "PutState", key |-> "FIR1", ok |-> TRUE] >>

C14_Witness ==
  /\ last.op = "InitLedger_FIR"
  /\ last.err = StorageError
  /\ last.fail = 2
  /\ Len(AppliedWrites(last.calls)) = 1
  /\ "FIR1" \notin DOMAIN state
  /\ DOMAIN state # {}

ScanOps == {"GetAllPersonnel", "GetAllFIRs"}

\* the positions of the store calls named op, successful or not
CallsOf(calls, op) == {i \in 1..Len(calls) : calls[i].op = op}

\* C15: the scan handle.  After every invocation no range iterator is open.
\* An invocation of GetAllPersonnel / GetAllFIRs whose range scan was opened
\* has closed the iterator exactly once, as its last store call, whether it
\* returns the records or the error of a failing Next; one whose range scan
\* failed to open has closed nothing.
C15_IteratorClosed ==
  /\ iterators = 0
  /\ last.op \in ScanOps =>
       /\ CallsOf(last.calls, "GetStateByRange") = {1}
       /\ IF last.calls[1].ok
          THEN /\ CallsOf(last.calls, "Close") = {Len(last.calls)}
               /\ last.err # OK =>
                    /\ last.calls[Len(last.calls) - 1].op = "Next"
                    /\ ~last.calls[Len(last.calls) - 1].ok
          ELSE /\ CallsOf(last.calls, "Close") = {}
               /\ last.err = StorageError
  /\ last.op \notin ScanOps =>
       /\ CallsOf(last.calls, "GetStateByRange") = {}
       /\ CallsOf(last.calls, "Close") = {}

C15_Witness ==
  /\ last.op = "GetAllPersonnel"
  /\ last.err = StorageError
  /\ last.fail = 3
  /\ Len(last.calls) = 4
  /\ last.calls[2].ok
  /\ iterators = 0

\* C16 as claimed: every invocation of every operation issues at most one
\* put or delete.
C16_AtMostOneWrite == Len(IssuedWrites(last.calls)) <= 1

\* C16, amended: every invocation of every operation but InitLedger of the
\* case contract issues at most one put or delete, on the key it was called
\* with (POL12345 for InitLedger of the personnel contract).  InitLedger of
\* the case contract issues the put of FIR1 and then, unless that failed, the
\* put of FIR2: two writes whenever it succeeds.
C16_AtMostOneWriteButSeedCases ==
  /\ last.op # "InitLedger_FIR" =>
       /\ Len(IssuedWrites(last.calls)) <= 1
       /\ \A i \in 1..Len(IssuedWrites(last.calls)) :
            IssuedWrites(last.calls)[i].key =
              IF last.op = "InitLedger_Personnel" THEN "POL12345"
              ELSE last.key
  /\ last.op = "InitLedger_FIR" =>
       /\ last.calls = IssuedWrites(last.calls)
       /\ Len(last.calls) \in {1, 2}
       /\ last.calls[1].op = "PutState" /\ last.calls[1].key = "FIR1"
       /\ Len(last.calls) = 2 <=> last.calls[1].ok
       /\ Len(last.calls) = 2 =>
            last.calls[2].op = "PutState" /\ last.calls[2].key = "FIR2"
       /\ last.err = OK => Len(AppliedWrites(last.calls)) = 2

C16_Witness ==
  /\ last.op = "InitLedger_FIR"
  /\ last.err = OK
  /\ Len(IssuedWrites(last.calls)) = 2
  /\ "FIR1" \notin DOMAIN last.pre
  /\ "FIR2" \in DOMAIN last.pre

\* C17, in every step, for every key k: k becomes present only by a
\* successful create of k or a successful seed that lists k; the value at a
\* present k changes only by a successful update of k or a successful seed
\* that lists k; k becomes absent only by a successful delete of k; an
\* invocation that fails changes nothing.
C17_Step ==
  /\ \A k \in DOMAIN state \cup DOMAIN state' :
       /\ (k \notin DOMAIN state /\ k \in DOMAIN state')
            => /\ last'.err = OK
               /\ \/ last'.op \in CreateOps /\ last'.key = k
                  \/ k \in SeedWrites(last'.op)
       /\ (k \in DOMAIN state /\ k \in DOMAIN state' /\ state'[k] # state[k])
            => /\ last'.err = OK
               /\ \/ last'.op \in UpdateOps /\ last'.key = k
                  \/ k \in SeedWrites(last'.op)
       /\ (k \in DOMAIN state /\ k \notin DOMAIN state')
            => /\ last'.err = OK
               /\ last'.op \in DeleteOps
               /\ last'.key = k
  /\ last'.err # OK => state' = state
  /\ last'.op \notin (CreateOps \cup UpdateOps \cup DeleteOps \cup SeedOps)
       => state' = state

\* C17: the record lifecycle over any sequence of invocations.
C17_Lifecycle == [][C17_Step]_vars

C17_Witness ==
  /\ last.op = "InitLedger_Personnel"
  /\ last.err = OK
  /\ "POL12345" \in DOMAIN last.pre
  /\ last.pre["POL12345"] # state["POL12345"]
  /\ "FIR1" \in DOMAIN state

\* C18: the gate runs first.  A gated operation (create, update, delete of
\* either kind, ReadPolicePersonnel, InitLedger of the personnel contract)
\* called by anyone but an extracted Org1MSP returns AuthorizationDenied
\* having issued no store call at all, whether its key is present or absent.
C18_GateFirst ==
  /\ (last.op \in GatedOps /\ ~Authorized(last.identity))
       => /\ last.err = AuthorizationDenied
          /\ last.calls = <<>>
  /\ (last.op \in GatedOps /\ last.err \in {AlreadyExists, NotFound})
       => Authorized(last.identity)
  /\ (last.op \in GatedOps /\ last.calls # <<>>) => Authorized(last.identity)

C18_Witness ==
  /\ last.op = "DeletePolicePersonnel"
  /\ ~last.identity.err
  /\ last.identity.mspid = "Org2MSP"
  /\ last.key \notin DOMAIN last.pre
  /\ last.err = AuthorizationDenied
  /\ \E id \in Identities :
       CreatePolicePersonnel(Ctx(id, 0, state), "POL12345",
                             PersonnelArgSeq[1]).err = AlreadyExists

\* C19: the frame of create, update and delete.  A successful create,
\* update or delete of key k, of either kind, issues its one write on k and
\* leaves every other key present or absent as it was, with the value it
\* had.
C19_SingleKeyFrame ==
  (last.op \in (CreateOps \cup UpdateOps \cup DeleteOps) /\ last.err = OK)
  => /\ SameOutside(last.pre, state, {last.key})
     /\ \A i \in 1..Len(IssuedWrites(last.calls)) :
          IssuedWrites(last.calls)[i].key = last.key

C19_Witness ==
  /\ last.op = "UpdateFIR"
  /\ last.err = OK
  /\ "officerId" \in DOMAIN last.pre[last.key]
  /\ Cardinality(DOMAIN state) = Cardinality(Keys)
  /\ state[last.key] # last.pre[last.key]

PersonnelMembers ==
  [ OfficerID |-> "officerId", Name |-> "name", Rank |-> "rank",
    DOB |-> "dob", Posting |-> "posting", BadgeNumber |-> "badgeNumber",
    EmploymentStatus |-> "employmentStatus",
    DateOfJoining |-> "dateOfJoining", Award |-> "award",
    Suspension |-> "suspension", LastUpdatedBy |-> "lastUpdatedBy",
    LastUpdatedOn |-> "lastUpdatedOn" ]

\* a JSON document read as a personnel record, member by member
DecodePersonnel(blob) ==
  [ f \in DOMAIN PersonnelMembers |->
      IF PersonnelMembers[f] \in DOMAIN blob THEN blob[PersonnelMembers[f]]
      ELSE "" ]

\* the keys of the successful Next calls, in order
ScannedKeys(calls) ==
  LET nexts == SelectSeq(calls, LAMBDA c : c.op = "Next" /\ c.ok)
  IN [i \in 1..Len(nexts) |-> nexts[i].key]

\* C20: enumeration covers the keyspace.  GetAllPersonnel / GetAllFIRs (no
\* store call failing) opens one range scan with both bounds open and
\* returns one record for every key present, the value at the key decoded as
\* a record of the contract's own kind, whichever contract wrote it: a value
\* written by the other contract comes back as a record with every field
\* empty.
C20_ScanCoversKeyspace ==
  (last.op \in ScanOps /\ last.fail = 0)
  => LET keys == ScannedKeys(last.calls) IN
     /\ last.err = OK
     /\ last.calls[1] = [op |-> "GetStateByRange", key |-> "", ok |-> TRUE]
     /\ Range(keys) = DOMAIN last.pre
     /\ Len(keys) = Cardinality(DOMAIN last.pre)
     /\ Len(last.ret) = Len(keys)
     /\ \A i \in 1..Len(keys) :
          /\ last.ret[i] = IF last.op = "GetAllFIRs"
                           THEN DecodeFIR(last.pre[keys[i]])
                           ELSE DecodePersonnel(last.pre[keys[i]])
          /\ (last.op = "GetAllFIRs" /\ "officerId" \in DOMAIN last.pre[keys[i]])
               => \A f \in FIRFields : last.ret[i][f] = ""
          /\ (last.op = "GetAllPersonnel" /\ "FIRID" \in DOMAIN last.pre[keys[i]])
               => \A f \in DOMAIN PersonnelMembers : last.ret[i][f] = ""

C20_Witness ==
  /\ last.op = "GetAllFIRs"
  /\ last.err = OK
  /\ Len(last.ret) = Cardinality(Keys)
  /\ \E i \in 1..Len(last.ret) : last.ret[i].FIRID = ""
  /\ \E i \in 1..Len(last.ret) : last.ret[i].FIRID # ""

\* a stored value is a case document / a personnel document by its members
IsFIRDoc(blob) == "FIRID" \in DOMAIN blob

IsPersonnelDoc(blob) == "officerId" \in DOMAIN blob

\* C21: key collision across the kinds, in the one keyspace.  A create
\* stores its record at the identifier it was given, as it is.  Called by an
\* authorized caller (no store call failing), CreatePolicePersonnel(k) fails
\* with AlreadyExists when a case document is stored at k, and FileFIR(k)
\* when a personnel document is; DeleteFIR(k) succeeds on a personnel
\* document at k and removes it, and DeletePolicePersonnel(k) on a case
\* document.  Both exists functions return true for every present key.
C21_KeyCollision ==
  /\ (last.op \in CreateOps /\ last.err = OK)
       => DOMAIN state = DOMAIN last.pre \cup {last.key}
  /\ (/\ last.op \in CreateOps \cup DeleteOps
      /\ Authorized(last.identity)
      /\ last.fail = 0
      /\ last.key \in DOMAIN last.pre)
     => LET other == IF ModuleOf(last.op) = "fir"
                     THEN IsPersonnelDoc(last.pre[last.key])
                     ELSE IsFIRDoc(last.pre[last.key])
        IN other =>
             IF last.op \in CreateOps
             THEN /\ last.err = AlreadyExists
                  /\ state = last.pre
             ELSE /\ last.err = OK
                  /\ last.key \notin DOMAIN state
                  /\ SameOutside(last.pre, state, {last.key})
  /\ Idle =>
       \A k \in DOMAIN state :
         /\ FIRExists(Ctx(Org1, 0, state), k).ret = <<TRUE>>
         /\ PersonnelExists(Ctx(Org1, 0, state), k).ret = <<TRUE>>

C21_Witness ==
  /\ last.op = "DeleteFIR"
  /\ last.err = OK
  /\ IsPersonnelDoc(last.pre[last.key])
  /\ last.pre[last.key]["officerId"] = last.key
  /\ last.key \notin DOMAIN state

\* the world state the platform commits after an invocation run against st
Committed(st, out) == IF out.err = OK THEN out.state ELSE st

\* C23: two creates of one absent key, run one after the other in either
\* order.  For every absent key k and field sets f1 and f2, the create run
\* first succeeds, the create run second against the world state the first
\* left fails with AlreadyExists, and the value then stored at k is the
\* record of the first, whole.  In a run, a create that fails with
\* AlreadyExists leaves the world state as it was.
C23_SerializedCreates ==
  /\ Idle =>
       \A k \in Keys \ DOMAIN state :
         /\ \A f1, f2 \in PersonnelArgs :
              LET first == CreatePolicePersonnel(Ctx(Org1, 0, state), k, f1)
                  st1 == Committed(state, first)
                  second == CreatePolicePersonnel(Ctx(Org1, 0, st1), k, f2)
                  st2 == Committed(st1, second)
              IN /\ first.err = OK
                 /\ second.err = AlreadyExists
                 /\ st2[k] = PersonnelJSON(ExpectedPersonnel(k, f1))
                 /\ SameOutside(state, st2, {k})
         /\ \A f1, f2 \in FIRArgs :
              LET first == FileFIR(Ctx(Org1, 0, state), k, f1)
                  st1 == Committed(state, first)
                  second == FileFIR(Ctx(Org1, 0, st1), k, f2)
                  st2 == Committed(st1, second)
              IN /\ first.err = OK
                 /\ second.err = AlreadyExists
                 /\ st2[k] = FIRJSON(ExpectedFIR(k, f1))
                 /\ SameOutside(state, st2, {k})
  /\ (last.op \in CreateOps /\ last.err = AlreadyExists)
       => /\ state = last.pre
          /\ written.kind \in {"personnel", "fir"}
               => last.key \in DOMAIN written.recs
          /\ (written.kind = "personnel" /\ last.key \in DOMAIN written.recs)
               => state[last.key] =
                    PersonnelJSON(ExpectedPersonnel(last.key,
                                                    written.recs[last.key]))
          /\ (written.kind = "fir" /\ last.key \in DOMAIN written.recs)
               => state[last.key] =
                    FIRJSON(ExpectedFIR(last.key, written.recs[last.key]))

C23_Witness ==
  /\ last.op = "CreatePolicePersonnel"
  /\ last.err = AlreadyExists
  /\ written.kind = "personnel"
  /\ last.key \in DOMAIN written.recs
  /\ written.recs[last.key] # last.args
  /\ state[last.key]["posting"] = written.recs[last.key].posting
  /\ state[last.key]["posting"] # last.args.posting

\* C24: within one contract the identifier in a record is its key.  While
\* the world state has been written, since it was empty, by operations of
\* the case contract alone, every stored value is a case document whose
\* FIRID is the key it is stored at; while by operations of the personnel
\* contract alone, a personnel document whose officerId is its key.
C24_KeyIDConsistency ==
  /\ writers \subseteq {"fir"} =>
       \A k \in DOMAIN state :
         /\ IsFIRDoc(state[k])
         /\ state[k]["FIRID"] = k
  /\ writers \subseteq {"personnel"} =>
       \A k \in DOMAIN state :
         /\ IsPersonnelDoc(state[k])
         /\ state[k]["officerId"] = k

C24_Witness ==
  /\ writers = {"personnel"}
  /\ last.op = "UpdatePolicePersonnel"
  /\ last.err = OK
  /\ last.key # "POL12345"
  /\ "POL12345" \in DOMAIN state
  /\ state["POL12345"] = SeedRecord("POL12345")

QueryOps ==
  {"ReadPolicePersonnel", "ReadFIR", "PersonnelExists", "FIRExists",
   "GetAllPersonnel", "GetAllFIRs"}

\* C25: the queries are read-only.  ReadPolicePersonnel, ReadFIR,
\* PersonnelExists, FIRExists, GetAllPersonnel and GetAllFIRs, called by
\* anyone, returning a value or an error, issue gets, range scans and
\* iterator calls only, never a put or a delete, and leave the world state
\* as it was.
C25_QueriesReadOnly ==
  last.op \in QueryOps
  => /\ IssuedWrites(last.calls) = <<>>
     /\ \A i \in 1..Len(last.calls) :
          last.calls[i].op \in {"GetState", "GetStateByRange", "Next", "Close"}
     /\ state = last.pre

C25_Witness ==
  /\ last.op = "ReadPolicePersonnel"
  /\ last.err = OK
  /\ last.calls # <<>>
  /\ IsPersonnelDoc(state[last.key])
  /\ Cardinality(DOMAIN state) > 1

====
